---- MODULE Spec2Model ----
(***************************************************************************)
(* Model of runtime-diff (src/src/bin/runtime-diff.rs): run_test_commands  *)
(* spawns one worker thread per test command; each worker reads the lines  *)
(* of its test subject, classifies them and sends Breadcumb / Check        *)
(* messages into its own mpsc channel.  The main thread (the Comparator)   *)
(* drains the channels round by round, keeps a trail of recent messages    *)
(* per test and exits with status 1 when two checks of one round differ.   *)
(***************************************************************************)
EXTENDS Naturals, Sequences, FiniteSets

(* ------------------------------ bounds --------------------------------- *)
\* The manifests explored: NumTests test commands whose subjects print at
\* most MaxLines lines each, and WideTests commands with WideLines lines.
NumTests == 2
MaxLines == 3
WideTests == 3
WideLines == 2
\* largest value of the --max-breadcumbs argument that is explored
MaxCap == 1
\* lines of the manifest files that are parsed
MaxManifest == 3

Deep == [tests |-> NumTests, lines |-> MaxLines]
Wide == [tests |-> WideTests, lines |-> WideLines]

(* ------------------------- lines and messages -------------------------- *)
BreadcumbPrefix == "BREADCUMB:"
CheckPrefix == "RUNTIME CHECK:"

\* A line of text is a sequence of pieces: white space, a marker, a word.
Whitespace == " "

\* the output lines of a test subject, as they are read
Lines ==
  { <<BreadcumbPrefix, "x">>,
    <<CheckPrefix, "a">>,
    <<CheckPrefix, "b">>,
    <<Whitespace, CheckPrefix, "a">>,
    <<"", "plain">> }

\* a reader that does not trim the lines
NoTrim(line) == line

RECURSIVE TrimStart(_)
TrimStart(line) ==
  IF line # <<>> /\ Head(line) = Whitespace THEN TrimStart(Tail(line))
  ELSE line

RECURSIVE TrimEnd(_)
TrimEnd(line) ==
  IF line # <<>> /\ line[Len(line)] = Whitespace
  THEN TrimEnd(SubSeq(line, 1, Len(line) - 1))
  ELSE line

\* str::trim
Trim(line) == TrimEnd(TrimStart(line))

\* str::starts_with
starts_with(line, prefix) == line # <<>> /\ line[1] = prefix

(* ------------------------------ manifest ------------------------------- *)
\* str::ends_with
ends_with(line, piece) == line # <<>> /\ line[Len(line)] = piece

RECURSIVE trim_end_matches(_, _)
\* str::trim_end_matches: every trailing occurrence is removed
trim_end_matches(line, piece) ==
  IF ends_with(line, piece)
  THEN trim_end_matches(SubSeq(line, 1, Len(line) - 1), piece)
  ELSE line

\* the position of the first occurrence of piece in line, 0 if there is none
FirstIndex(line, piece) ==
  IF \E k \in 1..Len(line) : line[k] = piece
  THEN CHOOSE k \in 1..Len(line) :
         /\ line[k] = piece
         /\ \A m \in 1..(k - 1) : line[m] # piece
  ELSE 0

\* what one line of the file does to the parser: the body of the for loop
ParseLine(acc, line) ==
  LET trimmed == Trim(line)
      colon == FirstIndex(trimmed, ":")
  IN IF trimmed = <<>> \/ starts_with(trimmed, "#")
     THEN acc
     ELSE IF ends_with(trimmed, ":")
     THEN [acc EXCEPT !.current_section = trim_end_matches(trimmed, ":")]
     ELSE IF acc.current_section = <<"build">>
     THEN [acc EXCEPT !.build_commands = Append(@, trimmed)]
     ELSE IF acc.current_section = <<"test">> /\ colon # 0
     THEN [acc EXCEPT !.test_commands =
             Append(@, << Trim(SubSeq(trimmed, 1, colon - 1)),
                          Trim(SubSeq(trimmed, colon + 1, Len(trimmed))) >>)]
     ELSE acc

RECURSIVE ParseLines(_, _)
ParseLines(acc, lines) ==
  IF lines = <<>> THEN acc
  ELSE ParseLines(ParseLine(acc, Head(lines)), Tail(lines))

\* load_test_file, for a file that could be read
load_test_file(lines) ==
  ParseLines([current_section |-> <<>>, build_commands |-> <<>>,
              test_commands |-> <<>>], lines)

\* the lines of the manifest files that are parsed
ManifestLines ==
  { <<>>,
    <<"#", "note">>,
    <<"build", ":">>,
    <<"test", ":">>,
    <<"make">>,
    <<Whitespace, "make", Whitespace>>,
    <<"echo", Whitespace, "done", ":">>,
    <<"a", ":", Whitespace, "run">> }

RECURSIVE SeqsUpTo(_, _)
\* the sequences of at most n elements of S
SeqsUpTo(S, n) ==
  IF n = 0 THEN { <<>> }
  ELSE LET shorter == SeqsUpTo(S, n - 1)
       IN shorter \cup { Append(q, x) : q \in shorter, x \in S }

\* a manifest with one build command and n test commands
ManifestOf(n) ==
  << <<"build", ":">>, <<"make">>, <<"test", ":">> >>
    \o [k \in 1..n |-> <<"a", ":", Whitespace, "run">>]

\* enum CommandData
Check(msg) == [kind |-> "Check", msg |-> msg]
Breadcumb(msg) == [kind |-> "Breadcumb", msg |-> msg]

\* Option<String> of last_checks
None == <<>>
Some(msg) == <<msg>>

ExitCodes == {0, 1}

VARIABLES
  content,         \* the lines of the manifest file
  build_commands,  \* TestFile.build_commands
  test_commands,   \* TestFile.test_commands
  build_result,    \* how the build invocation ended, "pending" before it
  num_tests,       \* in run_test_commands: test_commands.len()
  line_limit,      \* lines a subject prints at most (environment)
  max_breadcumbs,  \* Args.max_breadcumbs
  wpc,             \* position of each worker thread
  fault,           \* per test: how its subject failed, "none" if it did not
  echoed,          \* per test: number of plain lines printed to the console
  sent,            \* per test: every message the worker has sent, in order
  receivers,       \* per test: the messages queued in its channel
  breadcumbs,      \* per test: the trail (VecDeque) kept by the Comparator
  last_checks,     \* the checks collected in the current round
  still_running,   \* the loop flag of the Comparator
  idx,             \* the receiver the Comparator is draining
  round,           \* number of the round the Comparator is in
  cpc,             \* position of the main thread
  status,          \* "running" or how the process has exited
  reported,        \* the trails printed at a mismatch
  snapshots        \* the last_checks of every round judged so far

vars ==
  << content, build_commands, test_commands, build_result, num_tests,
     line_limit, max_breadcumbs, wpc, fault, echoed, sent, receivers,
     breadcumbs, last_checks, still_running, idx, round, cpc, status,
     reported, snapshots >>

Tests == 1..num_tests

fileVars == << content, build_commands, test_commands >>
argVars == << fileVars, build_result, num_tests, line_limit, max_breadcumbs >>
workerVars == << wpc, fault, echoed, sent, receivers >>
comparatorVars ==
  << breadcumbs, last_checks, still_running, idx, round, cpc, reported,
     snapshots >>

(* ------------------------------ channel -------------------------------- *)
\* a channel of capacity 1 (sync_channel(1)): send waits while it is full
ChannelBounded(queue) == Len(queue) < 1

\* std::sync::mpsc::channel is unbounded: send never waits for room
ChannelHasRoom(queue) == TRUE

\* a Sender that outlives the worker (a clone kept by the main thread)
SenderNeverDropped(i) == FALSE

\* the Sender is owned by the worker's closure and dropped when it returns
SenderDropped(i) == wpc[i] = "done"

\* try_recv() in place of recv(): an empty queue ends the drain
RecvDisconnectedWhenEmpty(i) == receivers[i] = <<>>

\* recv() returns Err only when the queue is empty and the Sender is gone
RecvDisconnected(i) == receivers[i] = <<>> /\ SenderDropped(i)

(* ------------------------------- trail --------------------------------- *)
RECURSIVE Evict(_, _)
\* while breadcumbs[i].len() > max_breadcumbs { pop_front() }
Evict(trail, max) ==
  IF Len(trail) > max THEN Evict(Tail(trail), max) ELSE trail

\* a push that evicts after it has appended
PushThenEvict(trail, msg, max) == Evict(Append(trail, msg), max)

\* what the Comparator does to the trail for one received message
Push(trail, msg, max) == Append(Evict(trail, max), msg)

\* trails that are one shared buffer: a message enters all of them
PushEveryTrail(trails, i, msg, max) ==
  [j \in DOMAIN trails |-> Push(trails[j], msg, max)]

\* breadcumbs[i] alone is evicted from and pushed to
PushTrail(trails, i, msg, max) ==
  [trails EXCEPT ![i] = Push(@, msg, max)]

(* ---------------------------- round verdict ---------------------------- *)
\* the HashSet of the Some(..) entries of last_checks
DistinctChecks(checks) ==
  { checks[i][1] : i \in { j \in DOMAIN checks : checks[j] # None } }

\* the verdict with "> 0" in place of "> 1"
IsMismatchAnyCheck(checks) ==
  /\ \E i \in DOMAIN checks : checks[i] # None
  /\ Cardinality(DistinctChecks(checks)) > 0

\* the verdict without the filter_map: None counts as a value
IsMismatchCountingNone(checks) ==
  /\ \E i \in DOMAIN checks : checks[i] # None
  /\ Cardinality({ checks[i] : i \in DOMAIN checks }) > 1

\* the test of lines 171-177
IsMismatch(checks) ==
  /\ \E i \in DOMAIN checks : checks[i] # None
  /\ Cardinality(DistinctChecks(checks)) > 1

\* the state when run_test_commands starts, for one manifest shape: the
\* manifest is loaded, the build has succeeded, the threads are created
InitShape(shape) ==
  /\ content = ManifestOf(shape.tests)
  /\ build_commands = load_test_file(content).build_commands
  /\ test_commands = load_test_file(content).test_commands
  /\ build_result = "ok"
  /\ num_tests = shape.tests
  /\ line_limit = shape.lines
  /\ max_breadcumbs \in 0..MaxCap
  /\ wpc = [i \in Tests |-> "spawn"]
  /\ fault = [i \in Tests |-> "none"]
  /\ echoed = [i \in Tests |-> 0]
  /\ sent = [i \in Tests |-> <<>>]
  /\ receivers = [i \in Tests |-> <<>>]
  /\ breadcumbs = [i \in Tests |-> <<>>]
  /\ last_checks = [i \in Tests |-> None]
  /\ still_running = FALSE
  /\ idx = 1
  /\ round = 1
  /\ cpc = "recv"
  /\ status = "running"
  /\ reported = <<>>
  /\ snapshots = <<>>

\* the state when main starts, for a manifest file and subjects that
\* print at most limit lines
MainInit(lines, limit) ==
  /\ content = lines
  /\ build_commands = <<>>
  /\ test_commands = <<>>
  /\ build_result = "pending"
  /\ num_tests = 0
  /\ line_limit = limit
  /\ max_breadcumbs \in 0..MaxCap
  /\ wpc = <<>>
  /\ fault = <<>>
  /\ echoed = <<>>
  /\ sent = <<>>
  /\ receivers = <<>>
  /\ breadcumbs = <<>>
  /\ last_checks = <<>>
  /\ still_running = FALSE
  /\ idx = 1
  /\ round = 1
  /\ cpc = "load"
  /\ status = "running"
  /\ reported = <<>>
  /\ snapshots = <<>>

Init ==
  \/ MainInit(ManifestOf(Deep.tests), Deep.lines)
  \/ MainInit(ManifestOf(Wide.tests), Wide.lines)

\* every manifest file of at most MaxManifest lines
ParseInit ==
  \E lines \in SeqsUpTo(ManifestLines, MaxManifest) :
    MainInit(lines, MaxLines)

(* -------------------------------- main --------------------------------- *)
\* load_test_file(&args.testfile) in main, and its error branch
LoadTestFile ==
  /\ status = "running"
  /\ cpc = "load"
  /\ \E readable \in BOOLEAN :
       IF readable
       THEN /\ build_commands' = load_test_file(content).build_commands
            /\ test_commands' = load_test_file(content).test_commands
            /\ cpc' = "build"
            /\ UNCHANGED status
       ELSE /\ status' = "load_failed"
            /\ UNCHANGED << build_commands, test_commands, cpc >>
  /\ UNCHANGED << content, build_result, num_tests, line_limit,
                  max_breadcumbs, workerVars, breadcumbs, last_checks,
                  still_running, idx, round, reported, snapshots >>

\* a main that does not look at the status of the build
BuildStatusIgnored(code) == TRUE

\* status.success() of the build invocation
BuildSucceeded(code) == code = 0

\* the build invocation of main; after a successful build
\* run_test_commands creates a channel and a thread per test command
\* and the trails, and enters its loop
Build ==
  /\ status = "running"
  /\ cpc = "build"
  /\ \E code \in ExitCodes :
       /\ build_result' = IF code = 0 THEN "ok" ELSE "failed"
       /\ IF BuildSucceeded(code)
          THEN LET n == Len(test_commands)
               IN /\ num_tests' = n
                  /\ wpc' = [i \in 1..n |-> "spawn"]
                  /\ fault' = [i \in 1..n |-> "none"]
                  /\ echoed' = [i \in 1..n |-> 0]
                  /\ sent' = [i \in 1..n |-> <<>>]
                  /\ receivers' = [i \in 1..n |-> <<>>]
                  /\ breadcumbs' = [i \in 1..n |-> <<>>]
                  /\ last_checks' = [i \in 1..n |-> None]
                  /\ cpc' = IF n = 0 THEN "join" ELSE "recv"
                  /\ UNCHANGED status
          ELSE /\ status' = "build_failed"
               /\ UNCHANGED << num_tests, workerVars, breadcumbs,
                               last_checks, cpc >>
  /\ UNCHANGED << fileVars, line_limit, max_breadcumbs, still_running, idx,
                  round, reported, snapshots >>

(* ------------------------------- workers ------------------------------- *)
\* eprintln!(..); std::process::exit(1) in a worker thread: the whole
\* process ends, the Sender is never dropped
WorkerExit(i, why) ==
  /\ fault' = [fault EXCEPT ![i] = why]
  /\ status' = "failed"
  /\ UNCHANGED << argVars, wpc, echoed, sent, receivers, comparatorVars >>

\* Command::new("sh").arg("-c").arg(command)...spawn()
WorkerSpawn(i) ==
  /\ status = "running"
  /\ wpc[i] = "spawn"
  /\ \E ok \in BOOLEAN :
       IF ok
       THEN /\ wpc' = [wpc EXCEPT ![i] = "reading"]
            /\ UNCHANGED << argVars, fault, echoed, sent, receivers,
                            comparatorVars, status >>
       ELSE WorkerExit(i, "spawn")

\* a send that gives up when a message is already queued (try_send on a
\* channel of capacity 1, its error ignored)
SendUnlessBusy(i, data) ==
  /\ receivers' = [receivers EXCEPT
                     ![i] = IF @ = <<>> THEN Append(@, data) ELSE @]
  /\ sent' = [sent EXCEPT ![i] = Append(@, data)]
  /\ UNCHANGED echoed

\* sender.send(data)
Send(i, data) ==
  /\ ChannelHasRoom(receivers[i])
  /\ receivers' = [receivers EXCEPT ![i] = Append(@, data)]
  /\ sent' = [sent EXCEPT ![i] = Append(@, data)]
  /\ UNCHANGED echoed

\* one Ok(line) of reader.lines(): the line is classified by its prefix
WorkerLine(i, line) ==
  /\ status = "running"
  /\ wpc[i] = "reading"
  /\ Len(sent[i]) + echoed[i] < line_limit
  /\ LET trimmed == Trim(line)
     IN IF starts_with(trimmed, BreadcumbPrefix)
        THEN Send(i, Breadcumb(trimmed))
        ELSE IF starts_with(trimmed, CheckPrefix)
        THEN Send(i, Check(trimmed))
        ELSE /\ echoed' = [echoed EXCEPT ![i] = @ + 1]
             /\ UNCHANGED << sent, receivers >>
  /\ UNCHANGED << argVars, wpc, fault, comparatorVars, status >>

\* an Err(e) of reader.lines()
WorkerReadError(i) ==
  /\ status = "running"
  /\ wpc[i] = "reading"
  /\ WorkerExit(i, "read")

\* a worker that does not look at the exit status
ExitStatusIgnored(code) == TRUE

\* status.success()
ExitStatusSuccess(code) == code = 0

\* the end of the subject's output, child.wait() and the status test; the
\* closure returns, and drops the Sender, only after a successful status
WorkerEof(i) ==
  /\ status = "running"
  /\ wpc[i] = "reading"
  /\ \E code \in ExitCodes :
       /\ fault' = IF code = 0 THEN fault ELSE [fault EXCEPT ![i] = "exit"]
       /\ IF ExitStatusSuccess(code)
          THEN /\ wpc' = [wpc EXCEPT ![i] = "done"]
               /\ UNCHANGED status
          ELSE /\ status' = "failed"
               /\ UNCHANGED wpc
  /\ UNCHANGED << argVars, echoed, sent, receivers, comparatorVars >>

Worker(i) ==
  \/ WorkerSpawn(i)
  \/ \E line \in Lines : WorkerLine(i, line)
  \/ WorkerReadError(i)
  \/ WorkerEof(i)

(* ----------------------------- Comparator ------------------------------ *)
\* a drain that ends at every message
DrainEndsAlways(data) == TRUE

\* a Check ends the drain of its receiver (the break of line 156), a
\* Breadcumb does not
DrainEnds(data) == data.kind = "Check"

\* a Comparator that prints the trails and goes on
AfterReportNoExit == "running"

\* how the process ends once the trails are printed: std::process::exit(1)
AfterReport == "mismatch"

\* What follows the drain of receiver i: the next receiver, or after the
\* last one the verdict on the round and the test of the while loop.
\* checks, running and trails are last_checks, still_running and breadcumbs
\* as the drain leaves them.
EndOfDrain(i, checks, running, trails) ==
  IF i < num_tests
  THEN /\ idx' = i + 1
       /\ last_checks' = checks
       /\ still_running' = running
       /\ UNCHANGED << round, cpc, status, reported, snapshots >>
  ELSE /\ snapshots' = Append(snapshots, checks)
       /\ IF IsMismatch(checks)
          THEN /\ reported' = trails
               /\ status' = AfterReport
               /\ last_checks' = checks
               /\ still_running' = running
               /\ UNCHANGED << idx, round, cpc >>
          ELSE IF running
          THEN /\ last_checks' = [j \in Tests |-> None]
               /\ still_running' = FALSE
               /\ idx' = 1
               /\ round' = round + 1
               /\ UNCHANGED << cpc, status, reported >>
          ELSE /\ cpc' = "join"
               /\ last_checks' = checks
               /\ still_running' = running
               /\ UNCHANGED << idx, round, status, reported >>

\* receiver.recv() returns Ok(data)
RecvOk(i) ==
  /\ status = "running"
  /\ cpc = "recv"
  /\ idx = i
  /\ receivers[i] # <<>>
  /\ LET data == Head(receivers[i])
         trails == PushTrail(breadcumbs, i, data.msg, max_breadcumbs)
         checks == IF data.kind = "Check"
                   THEN [last_checks EXCEPT ![i] = Some(data.msg)]
                   ELSE last_checks
     IN /\ receivers' = [receivers EXCEPT ![i] = Tail(@)]
        /\ breadcumbs' = trails
        /\ IF DrainEnds(data)
           THEN EndOfDrain(i, checks, TRUE, trails)
           ELSE /\ last_checks' = checks
                /\ still_running' = TRUE
                /\ UNCHANGED << idx, round, cpc, status, reported,
                                snapshots >>
  /\ UNCHANGED << argVars, wpc, fault, echoed, sent >>

\* receiver.recv() returns Err(_)
RecvErr(i) ==
  /\ status = "running"
  /\ cpc = "recv"
  /\ idx = i
  /\ RecvDisconnected(i)
  /\ EndOfDrain(i, last_checks, still_running, breadcumbs)
  /\ UNCHANGED << argVars, workerVars, breadcumbs >>

\* handle.join() of every worker, then "All tests completed successfully"
JoinAll ==
  /\ status = "running"
  /\ cpc = "join"
  /\ \A i \in Tests : wpc[i] = "done"
  /\ status' = "success"
  /\ UNCHANGED << argVars, workerVars, comparatorVars >>

Comparator ==
  \/ \E i \in Tests : RecvOk(i)
  \/ \E i \in Tests : RecvErr(i)
  \/ JoinAll

\* the threads of run_test_commands
RunNext ==
  \/ \E i \in Tests : Worker(i)
  \/ Comparator

Next ==
  \/ LoadTestFile
  \/ Build
  \/ RunNext

Spec == Init /\ [][Next]_vars

\* load_test_file alone, applied to every manifest file explored
ParseSpec == ParseInit /\ [][LoadTestFile]_vars

\* The threads are scheduled by the operating system: the main thread and
\* every worker take a step they can take.
FairSpec ==
  /\ InitShape(Deep)
  /\ [][RunNext]_vars
  /\ WF_vars(Comparator)
  /\ \A i \in 1..NumTests : WF_vars(Worker(i))

(* ------------------------- history of the run -------------------------- *)
IsCheck(data) == data.kind = "Check"
Msgs(s) == [k \in 1..Len(s) |-> s[k].msg]
LastN(s, n) == SubSeq(s, Len(s) - n + 1, Len(s))
Min(a, b) == IF a < b THEN a ELSE b

\* the checks test i has sent so far, and the messages the Comparator has
\* received from it
ChecksSent(i) == Msgs(SelectSeq(sent[i], IsCheck))
Consumed(i) == SubSeq(sent[i], 1, Len(sent[i]) - Len(receivers[i]))
ChecksConsumed(i) == Len(SelectSeq(Consumed(i), IsCheck))

\* two tests both have a k-th check and the two texts differ
Differ(k) ==
  \E i, j \in Tests :
    /\ Len(ChecksSent(i)) >= k
    /\ Len(ChecksSent(j)) >= k
    /\ ChecksSent(i)[k] # ChecksSent(j)[k]

NoFault == \A i \in Tests : fault[i] = "none"

(* ------------------------------- claims -------------------------------- *)

\* C1: checks are compared by position.  A mismatch is declared in round k
\* only if two tests have different k-th checks, the Comparator never gets
\* past a round k whose k-th checks differ, and a run that reports success
\* had no differing k-th checks at all.
PositionalComparison ==
  /\ status = "mismatch" => Differ(round)
  /\ \A k \in 1..line_limit : Differ(k) => round <= k
  /\ status = "success" => \A k \in 1..line_limit : ~Differ(k)

\* the sequences [a,a,a] and [a,a,b] give a mismatch in round 3
MismatchAtThirdRound ==
  /\ status = "mismatch"
  /\ round = 3
  /\ ChecksSent(1) = << <<CheckPrefix, "a">>, <<CheckPrefix, "a">>,
                        <<CheckPrefix, "a">> >>
  /\ ChecksSent(2) = << <<CheckPrefix, "a">>, <<CheckPrefix, "a">>,
                        <<CheckPrefix, "b">> >>

\* the check sequences sent so far agree wherever two of them are defined
ChecksConsistent == \A k \in 1..line_limit : ~Differ(k)

\* every subject has exited with status zero and all sent the same checks
AllDoneIdentical ==
  /\ \A i \in Tests : wpc[i] = "done"
  /\ \A i, j \in Tests : ChecksSent(i) = ChecksSent(j)

\* C2: when the tests send identical check sequences no mismatch is ever
\* declared, and once every subject has exited with status zero the run
\* ends reporting success.
AgreementNoFalsePositive ==
  /\ [](ChecksConsistent => status # "mismatch")
  /\ (AllDoneIdentical ~> status = "success")

\* success after identical sequences of at least two checks, with a
\* breadcumb in between
AgreedRun ==
  /\ status = "success"
  /\ \A i, j \in Tests : ChecksSent(i) = ChecksSent(j)
  /\ \A i \in Tests : Len(ChecksSent(i)) >= 2
  /\ \E i \in Tests : Len(sent[i]) > Len(ChecksSent(i))

\* C3: a test without a check in a round never causes a mismatch by
\* itself (a mismatch needs two tests that both gave a check in the round,
\* with different texts), and the tests that are still live keep being
\* compared: in round r every test has had r - 1 checks compared, plus the
\* one of this round if it has given it, unless its channel has closed.
EarlyTerminationTolerance ==
  /\ status = "mismatch" =>
       \E i, j \in Tests :
         /\ last_checks[i] # None
         /\ last_checks[j] # None
         /\ last_checks[i] # last_checks[j]
  /\ \A j \in Tests :
       \/ ChecksConsumed(j)
            = (round - 1) + (IF last_checks[j] # None THEN 1 ELSE 0)
       \/ /\ wpc[j] = "done"
          /\ receivers[j] = <<>>
          /\ last_checks[j] = None
          /\ ChecksConsumed(j) < round

\* a test closed without any check, and two others reached a mismatch in
\* a later round
MismatchAfterExclusion ==
  /\ status = "mismatch"
  /\ round >= 2
  /\ \E i \in Tests :
       /\ ChecksSent(i) = <<>>
       /\ wpc[i] = "done"
       /\ last_checks[i] = None

\* C4: the length of every trail is at most max_breadcumbs.
TrailBound == \A i \in Tests : Len(breadcumbs[i]) <= max_breadcumbs

\* C5: the trail of a test holds the most recent min(n, max_breadcumbs) of
\* the n messages received from it, in arrival order.
TrailMostRecent ==
  \A i \in Tests :
    breadcumbs[i]
      = LastN(Msgs(Consumed(i)), Min(Len(Consumed(i)), max_breadcumbs))

IsSuffix(t, s) == Len(t) <= Len(s) /\ t = LastN(s, Len(t))

\* C6: a mismatch is a hard stop.  The step that declares it prints the
\* trail of every test, in test order and each in arrival order, and ends
\* the process with a failure status; no step follows it.
HardStop ==
  [][ /\ reported = <<>>
      /\ reported' # <<>> =>
           /\ status' = "mismatch"
           /\ DOMAIN reported' = Tests
           /\ \A i \in Tests :
                /\ reported'[i] = breadcumbs'[i]
                /\ IsSuffix(reported'[i], Msgs(Consumed(i)'))
    ]_vars

\* a mismatch declared while messages are still queued
MismatchWithQueuedMessages ==
  /\ status = "mismatch"
  /\ reported # <<>>
  /\ \E i \in Tests : receivers[i] # <<>>
  /\ \E i \in Tests : Len(reported[i]) >= 2

\* C7: a subject that fails to start, whose output gives a read error or
\* that exits with a non-zero status ends the whole run with a failure:
\* success is never reported.
WorkerFailureFatal ==
  \A i \in Tests : fault[i] # "none" => status = "failed"

\* a subject exits non-zero after another one has finished and the
\* Comparator has judged a round
FailureAfterProgress ==
  /\ \E i \in Tests : fault[i] = "exit"
  /\ \E j \in Tests : wpc[j] = "done"
  /\ round >= 2

\* C8: when the Comparator has left its loop, and when the run reports
\* success, every worker has dropped its Sender, every channel is empty,
\* every message sent has been received and no mismatch was reported.
SuccessOnlyAfterClose ==
  (cpc = "join" \/ status = "success") =>
    /\ \A i \in Tests :
         /\ wpc[i] = "done"
         /\ receivers[i] = <<>>
         /\ Consumed(i) = sent[i]
    /\ reported = <<>>
    /\ ~IsMismatch(last_checks)

\* success after messages were sent and received
SuccessAfterMessages ==
  /\ status = "success"
  /\ \A i \in Tests : Len(sent[i]) >= 1
  /\ round >= 3

\* C9: if no subject fails and no round is a mismatch, the Comparator
\* eventually reports success; it leaves its loop only when every channel
\* has closed.
Termination ==
  /\ [](NoFault /\ status # "mismatch") => <>(status = "success")
  /\ [](cpc = "join" => \A i \in Tests : wpc[i] = "done" /\ receivers[i] = <<>>)

\* success reported after three rounds of checks
TerminatedAfterRounds ==
  /\ status = "success"
  /\ round = 4
  /\ NoFault

\* C10: a worker never waits for the Comparator.  Whatever is queued in
\* its channel, a worker that is reading can handle its next line, of any
\* kind; and while the process runs some thread can take a step.
NeverBlocks ==
  /\ \A i \in Tests :
       (status = "running" /\ wpc[i] = "reading"
          /\ Len(sent[i]) + echoed[i] < line_limit) =>
         \A line \in Lines : ENABLED WorkerLine(i, line)
  /\ status = "running" => ENABLED Next

\* the Comparator waits for test 1 while test 2 has queued two messages
\* and can still send
FastProducer ==
  /\ status = "running"
  /\ num_tests >= 2
  /\ cpc = "recv"
  /\ idx = 1
  /\ receivers[1] = <<>>
  /\ Len(receivers[2]) >= 2
  /\ wpc[2] = "reading"
  /\ Len(sent[2]) + echoed[2] < line_limit

\* the k-th check of test i was the entry of test i in the k-th round judged
ComparedInRound(i, k) ==
  /\ Len(snapshots) >= k
  /\ Len(ChecksSent(i)) >= k
  /\ snapshots[k][i] = Some(ChecksSent(i)[k])

\* C11: no check is lost.  The checks of a test enter the rounds in the
\* order they were sent, the k-th check in round k; and every check sent
\* is eventually compared in its round, unless a mismatch or a failure of
\* a worker ends the run first.
NoCheckLost ==
  /\ [](\A k \in 1..Len(snapshots) : \A i \in Tests :
          snapshots[k][i] # None => ComparedInRound(i, k))
  /\ \A i \in 1..NumTests : \A k \in 1..MaxLines :
       (Len(ChecksSent(i)) >= k)
         ~> (status \in {"mismatch", "failed"} \/ ComparedInRound(i, k))

\* a test sent a breadcumb and two checks, the second was compared in
\* round 2 and the run ended with success
SecondCheckCompared ==
  /\ status = "success"
  /\ \E i \in Tests :
       /\ Len(sent[i]) = 3
       /\ Len(ChecksSent(i)) = 2
       /\ ComparedInRound(i, 2)

\* C12: a build that exits non-zero ends the run with a failure before
\* run_test_commands starts: no thread, no channel, no round.  The tests
\* run only after a build that succeeded.
BuildFailureStopsRun ==
  /\ build_result = "failed" =>
       /\ status = "build_failed"
       /\ cpc = "build"
       /\ num_tests = 0
       /\ wpc = <<>>
       /\ receivers = <<>>
       /\ snapshots = <<>>
  /\ (num_tests > 0 \/ cpc \in {"recv", "join"}) => build_result = "ok"

\* the build failed for a manifest that names tests
BuildFailedWithTests ==
  /\ status = "build_failed"
  /\ Len(test_commands) >= 2

\* a section header as the manifest format defines it: an identifier
\* followed by a colon
IsWord(piece) == piece \notin {Whitespace, ":", "#"}
IsHeader(trimmed) ==
  Len(trimmed) = 2 /\ IsWord(trimmed[1]) /\ trimmed[2] = ":"

RECURSIVE BuildSectionLines(_, _)
\* the non-empty, non-comment lines between the header "build:" and the
\* next header, in file order; section is the name of the section so far
BuildSectionLines(lines, section) ==
  IF lines = <<>> THEN <<>>
  ELSE LET trimmed == Trim(Head(lines))
       IN IF trimmed = <<>> \/ starts_with(trimmed, "#")
          THEN BuildSectionLines(Tail(lines), section)
          ELSE IF IsHeader(trimmed)
          THEN BuildSectionLines(Tail(lines), trimmed[1])
          ELSE IF section = "build"
          THEN <<trimmed>> \o BuildSectionLines(Tail(lines), section)
          ELSE BuildSectionLines(Tail(lines), section)

\* C13: the build commands are the non-empty, non-comment lines of the
\* build section, in file order; a command line never changes the section.
BuildSectionKept ==
  cpc = "build" => build_commands = BuildSectionLines(content, "")

\* C14: the Comparator judges a round only when every test has either
\* given its check of that round or closed its channel: in the snapshot of
\* round k an entry is the k-th check of its test, or it is None and the
\* worker of that test has finished, its channel is empty and it sent
\* fewer than k checks.
WaitsForSlowest ==
  [][ snapshots' # snapshots =>
        LET k == Len(snapshots')
        IN \A i \in Tests :
             IF snapshots'[k][i] = None
             THEN /\ wpc'[i] = "done"
                  /\ receivers'[i] = <<>>
                  /\ Len(ChecksSent(i)') < k
             ELSE /\ Len(ChecksSent(i)') >= k
                  /\ snapshots'[k][i] = Some(ChecksSent(i)'[k])
    ]_vars

\* the second round was judged with the check of one test and None for a
\* test that had closed
RoundWithClosedTest ==
  /\ Len(snapshots) >= 2
  /\ \E i, j \in Tests :
       /\ snapshots[2][i] = None
       /\ snapshots[2][j] # None

\* C15: the drain of one receiver in one round.  Messages leave the
\* channel from its head, one at a time, while the Comparator is at that
\* receiver and has no check of it for the round; the rest of the queue
\* stays as it is.  A Breadcumb leaves the Comparator at the same receiver
\* in the same round; a Check is recorded as the value of the test for the
\* round and ends the drain.
PerRoundDrain ==
  [][ \A i \in Tests :
        Len(receivers'[i]) < Len(receivers[i]) =>
          LET data == Head(receivers[i])
          IN /\ cpc = "recv"
             /\ idx = i
             /\ last_checks[i] = None
             /\ receivers'[i] = Tail(receivers[i])
             /\ IF data.kind = "Breadcumb"
                THEN /\ idx' = i
                     /\ round' = round
                     /\ last_checks' = last_checks
                     /\ snapshots' = snapshots
                     /\ status' = status
                ELSE IF i < num_tests
                THEN /\ idx' = i + 1
                     /\ last_checks'[i] = Some(data.msg)
                ELSE /\ Len(snapshots') = Len(snapshots) + 1
                     /\ snapshots'[Len(snapshots')][i] = Some(data.msg)
    ]_vars

\* a breadcumb and then a check were taken from a test in one round, and
\* the message queued behind the check is still in the channel
CheckLeavesRestQueued ==
  \E i \in Tests :
    /\ idx > i
    /\ round = 1
    /\ Len(Consumed(i)) = 2
    /\ Consumed(i)[1].kind = "Breadcumb"
    /\ last_checks[i] = Some(Consumed(i)[2].msg)
    /\ Len(receivers[i]) = 1

Last(s) == s[Len(s)]
SentKind(i, kind) ==
  /\ sent'[i] # sent[i]
  /\ Last(sent'[i]).kind = kind

\* C16 as stated: a line is a breadcumb exactly if it begins with
\* BREADCUMB:, a check exactly if it begins with RUNTIME CHECK:.
ClassifiedByLineStart ==
  [][ \A i \in Tests : \A line \in Lines :
        WorkerLine(i, line) =>
          /\ SentKind(i, "Breadcumb") <=> (line # <<>> /\ line[1] = BreadcumbPrefix)
          /\ SentKind(i, "Check") <=> (line # <<>> /\ line[1] = CheckPrefix)
    ]_vars

\* the pieces of a line that are not white space, and the line without
\* the white space at its two ends
Inked(line) == { k \in 1..Len(line) : line[k] # Whitespace }
Core(line) ==
  IF Inked(line) = {} THEN <<>>
  ELSE SubSeq(line,
              CHOOSE k \in Inked(line) : \A m \in Inked(line) : k <= m,
              CHOOSE k \in Inked(line) : \A m \in Inked(line) : k >= m)
CoreBegins(line, marker) == Core(line) # <<>> /\ Core(line)[1] = marker
IsMarked(msg) == msg # <<>> /\ msg[1] \in {BreadcumbPrefix, CheckPrefix}

\* C16, amended: the line is classified after the white space at its ends
\* is removed.  A Breadcumb is sent exactly for the lines that then begin
\* with BREADCUMB:, a Check exactly for those that then begin with
\* RUNTIME CHECK:, with the trimmed line as its text; any other line is
\* printed and sends nothing.  So every message in a channel, in a trail
\* and in last_checks begins with one of the two markers.
ClassifiedByTrimmedStart ==
  [][ /\ \A i \in Tests : \A line \in Lines :
           WorkerLine(i, line) =>
             /\ SentKind(i, "Breadcumb") <=> CoreBegins(line, BreadcumbPrefix)
             /\ SentKind(i, "Check") <=> CoreBegins(line, CheckPrefix)
             /\ sent'[i] # sent[i] =>
                  /\ Last(sent'[i]).msg = Core(line)
                  /\ receivers'[i] = Append(receivers[i], Last(sent'[i]))
                  /\ echoed'[i] = echoed[i]
             /\ sent'[i] = sent[i] =>
                  /\ echoed'[i] = echoed[i] + 1
                  /\ receivers'[i] = receivers[i]
      /\ \A i \in DOMAIN receivers' :
           /\ \A k \in 1..Len(receivers'[i]) : IsMarked(receivers'[i][k].msg)
           /\ \A k \in 1..Len(breadcumbs'[i]) : IsMarked(breadcumbs'[i][k])
           /\ last_checks'[i] # None => IsMarked(last_checks'[i][1])
    ]_vars

\* a test has printed a plain line and sent a breadcumb and a check
AllKindsOfLines ==
  \E i \in Tests :
    /\ echoed[i] = 1
    /\ Len(sent[i]) = 2
    /\ sent[i][1].kind = "Breadcumb"
    /\ sent[i][2].kind = "Check"

\* C17: the trail of a test changes only in a step in which the
\* Comparator takes a message from the channel of that test; that step
\* changes no other trail and no other channel.
TrailIsolation ==
  [][ \A i \in Tests :
        breadcumbs'[i] # breadcumbs[i] =>
          /\ cpc = "recv"
          /\ idx = i
          /\ receivers[i] # <<>>
          /\ receivers'[i] = Tail(receivers[i])
          /\ \A j \in Tests \ {i} :
               /\ breadcumbs'[j] = breadcumbs[j]
               /\ receivers'[j] = receivers[j]
    ]_vars

\* test 1 has a trail while test 2, which has sent messages and whose
\* worker has finished, has none yet
OneTrailFilled ==
  /\ num_tests >= 2
  /\ breadcumbs[1] # <<>>
  /\ breadcumbs[2] = <<>>
  /\ sent[2] # <<>>
  /\ wpc[2] = "done"

\* C18: at a mismatch the trail printed for a test that gave a check in
\* the round ends with that check, whatever max_breadcumbs is.
MismatchTrailEndsWithCheck ==
  status = "mismatch" =>
    \A i \in Tests :
      last_checks[i] # None =>
        /\ reported[i] # <<>>
        /\ Last(reported[i]) = last_checks[i][1]

\* a mismatch with max_breadcumbs = 0
MismatchWithZeroCapacity ==
  /\ status = "mismatch"
  /\ max_breadcumbs = 0
  /\ \E i \in Tests : Len(Consumed(i)) >= 2

\* the messages of test i up to and including its k-th check, all of them
\* if it sent fewer than k checks
ThroughCheck(i, k) ==
  IF Len(ChecksSent(i)) < k THEN sent[i]
  ELSE LET n == CHOOSE m \in 1..Len(sent[i]) :
                  /\ sent[i][m].kind = "Check"
                  /\ Len(SelectSeq(SubSeq(sent[i], 1, m), IsCheck)) = k
       IN SubSeq(sent[i], 1, n)

\* C19: the outcome is a function of the output of the subjects, not of
\* the scheduling.  A mismatch is declared in the first round whose checks
\* differ, when every test with fewer checks has finished, and the trail
\* printed for a test holds the last messages of its output up to its
\* check of that round; success is reported only when every subject has
\* finished and no checks differ.
OutcomeDetermined ==
  /\ status = "mismatch" =>
       /\ Differ(round)
       /\ \A k \in 1..(round - 1) : ~Differ(k)
       /\ \A i \in Tests :
            /\ Len(ChecksSent(i)) < round => wpc[i] = "done"
            /\ LET msgs == Msgs(ThroughCheck(i, round))
               IN reported[i]
                    = LastN(msgs, Min(Len(msgs), max_breadcumbs + 1))
  /\ status = "success" =>
       /\ \A i \in Tests : wpc[i] = "done"
       /\ \A k \in 1..line_limit : ~Differ(k)

\* a mismatch in round 2 while the subject of one test is still running
\* and another test has finished with a single check
MismatchRegardlessOfRest ==
  /\ status = "mismatch"
  /\ round = 2
  /\ \E i \in Tests : wpc[i] = "reading"
  /\ \E i \in Tests : wpc[i] = "done" /\ Len(ChecksSent(i)) = 1

====
